---- MODULE Spec2Model ----
(***************************************************************************)
(* ElementSet (element-set.js): a set of populated elements kept in step   *)
(* with the `entries` list of a syncher.  The model follows the class      *)
(* method by method; every promise callback of the source is one action.   *)
(***************************************************************************)
EXTENDS Integers, Sequences, FiniteSets, TLC

\* ------------------------------------------------------------------ bounds
MaxDiffs == 1   \* remoteupdate handlers in flight at once
MaxOps == 3     \* calls and deliveries in one behaviour

Ids == {1, 2, 3}
CallIds == {1, 2}   \* the ids the calls and deliveries of Spec use

\* ------------------------------------------------------------------ values
UNDEF == "undefined"
NULL == "null"
Tags == {"g"}
GroupVals == {UNDEF, NULL} \cup Tags

\* a bare id, an element object, and the JS value undefined
IdVal(i) == [kind |-> "id", id |-> i]
Ele(i) == [kind |-> "ele", id |-> i]
NoEle == [kind |-> "undefined", id |-> 0]

Entry(i, g) == [id |-> i, group |-> g]

\* util.getId: the id of an element, or the id itself when given an id
getId(x) == IdVal(x.id)

RECURSIVE SeqToSet(_)
SeqToSet(s) == IF s = <<>> THEN {} ELSE {Head(s)} \cup SeqToSet(Tail(s))

EntryIds(es) == {es[k].id : k \in 1..Len(es)}

\* id-unique entry lists over the ids, with the given groups
RECURSIVE UniqueSeqs(_, _)
UniqueSeqs(ids, groups) ==
  {<<>>} \cup UNION {
    {<<Entry(i, g)>> \o rest : rest \in UniqueSeqs(ids \ {i}, groups)} :
      <<i, g>> \in ids \X groups }

\* ------------------------------------------------------------------ state
VARIABLES
  entries,       \* syncher.get('entries')
  live,          \* syncher.live
  eleLive,       \* ids of the elements whose live() is true
  elementsById,  \* this.elementsById
  diffs,         \* remoteupdate handlers in flight, in delivery order
  le,            \* the loadElements() call
  last,          \* what the last step did: emitted events, store calls, result
  ops,           \* calls and deliveries made so far
  ctor,          \* the constructor call: how it ended, the remoteupdate
                 \* subscriptions it made, whether the syncher declares entries
  docEles,       \* the elements a caller can hand to the document: which
                 \* are interactions, and their participants
  synchs,        \* synch() calls of the set whose el.synch() are pending
  doc            \* Document.synch() and Document.fromJson() calls in flight

vars == <<entries, live, eleLive, elementsById, diffs, le, last, ops, ctor,
         docEles, synchs, doc>>

\* a document with no synch() and no fromJson() in flight
NoDoc == [synch |-> <<>>, fromJson |-> <<>>]

\* an element that is an entity: not an interaction, no participants
Entity == [interaction |-> FALSE, participants |-> <<>>]
Entities == [i \in Ids |-> Entity]

\* the constructor has run: one subscription to remoteupdate
Constructed == [status |-> "constructed", subscriptions |-> 1, declared |-> TRUE]

\* ------------------------------------------------------------------ the Map
MapHas(m, key) == key.kind = "id" /\ m[key.id] # NoEle
MapGet(m, key) == IF key.kind = "id" THEN m[key.id] ELSE NoEle
MapSet(m, key, val) == IF key.kind = "id" THEN [m EXCEPT ![key.id] = val] ELSE m
MapDelete(m, key) == IF key.kind = "id" THEN [m EXCEPT ![key.id] = NoEle] ELSE m
MapSize(m) == Cardinality({i \in Ids : m[i] # NoEle})

\* has() that hands the element itself to the Map
hasByObject(m, ele) == MapHas(m, ele)

has(m, ele) == MapHas(m, getId(ele))
get(m, ele) == MapGet(m, getId(ele))
size(m) == MapSize(m)

\* ------------------------------------------------------------------ events
Evt(evt, ele, group, oldGroup) ==
  [evt |-> evt, ele |-> ele, group |-> group, oldGroup |-> oldGroup]

\* a call to the syncher and what its promise was settled with
StoreCall(op, i, g, silent) ==
  [op |-> op, id |-> i, group |-> g, silent |-> silent, outcome |-> "pending"]

NoDiff ==
  [pc |-> "none", changes |-> <<>>, old |-> <<>>, filledRemoved |-> <<>>,
   fill |-> <<>>, order |-> <<>>, emits |-> <<>>]

\* what the last step did: the call or callback, its argument, the events it
\* published, its calls to the syncher, what it returned, the handler record
\* it left; group is opts.group of an add() or a regroup()
Last(op, arg, emits, store, result, diff) ==
  [op |-> op, arg |-> arg, emits |-> emits, store |-> store, result |-> result,
   diff |-> diff, group |-> UNDEF]

Internal(op, diff) == Last(op, NoEle, <<>>, <<>>, "none", diff)

\* ------------------------------------------------------------------ lodash
\* _.differenceBy( a, b, getEntryId ): the entries of a whose id is not in b
differenceBy(a, b) ==
  LET keep(en) == en.id \notin EntryIds(b) IN SelectSeq(a, keep)

\* _.intersectionBy( a, b, getEntryId ): the entries of a, first of each id,
\* whose id is in b
RECURSIVE uniqBy(_, _)
uniqBy(a, seen) ==
  IF a = <<>> THEN <<>>
  ELSE IF Head(a).id \in seen THEN uniqBy(Tail(a), seen)
  ELSE <<Head(a)>> \o uniqBy(Tail(a), seen \cup {Head(a).id})

intersectionBy(a, b) ==
  LET keep(en) == en.id \in EntryIds(b) IN uniqBy(SelectSeq(a, keep), {})

\* Array.prototype.find( e => e.id === id ): the first match, or undefined
NoEntry == [id |-> 0, group |-> UNDEF]
find(es, i) ==
  LET hit(en) == en.id = i
      m == SelectSeq(es, hit)
  IN IF m = <<>> THEN NoEntry ELSE Head(m)

\* ------------------------------------------------------------------ remoteupdate handler
\* a difference by the whole entry, group and all
addedEntriesByValue(changes, old) ==
  LET keep(en) == en \notin SeqToSet(old) IN SelectSeq(changes, keep)

addedEntries(changes, old) == differenceBy(changes, old)
removedEntries(changes, old) == differenceBy(old, changes)
\* a regroup detection that walks every entry of the new list
sameEntriesAll(changes, old) == changes

sameEntries(changes, old) == intersectionBy(changes, old)

\* cache.load( id ) resolves with the element of that id
CacheLoad(key) == Ele(key.id)

\* a removal list that keeps the entries without an element too
filledRemovedAll(removed, m) ==
  [k \in 1..Len(removed) |->
     [entry |-> removed[k], ele |-> MapGet(m, IdVal(removed[k].id))]]

\* removedEntries.map( entry => get(entry.id) ? { entry, ele } : null ).filter( nonNil )
RECURSIVE filledRemovedOf(_, _)
filledRemovedOf(removed, m) ==
  IF removed = <<>> THEN <<>>
  ELSE LET entry == Head(removed)
           ele == MapGet(m, IdVal(entry.id))
       IN (IF ele # NoEle THEN <<[entry |-> entry, ele |-> ele]>> ELSE <<>>)
          \o filledRemovedOf(Tail(removed), m)

\* a Promise.all whose value lists the results as the promises were fulfilled
filledAddedAsFulfilled(added, order) ==
  [k \in 1..Len(order) |->
     [ele |-> CacheLoad(getId(added[order[k]])), entry |-> added[order[k]]]]

\* the value Promise.all( entries.map( fillEntry ) ) resolves with: the result
\* of each promise at the place of its entry, whatever the order in which the
\* promises were fulfilled
filledAddedOf(added, order) ==
  [k \in 1..Len(added) |-> [ele |-> CacheLoad(getId(added[k])), entry |-> added[k]]]

\* a Promise.all that waits for every promise and drops the rejected ones
PromiseAllSettled(fill) ==
  IF \A k \in 1..Len(fill) : fill[k] \in {"filled", "rejected"} THEN "fulfilled"
  ELSE "pending"

\* Promise.all over the fillEntry promises
PromiseAll(fill) ==
  IF \E k \in 1..Len(fill) : fill[k] = "rejected" THEN "rejected"
  ELSE IF \A k \in 1..Len(fill) : fill[k] = "filled" THEN "fulfilled"
  ELSE "pending"

Pending(fill) == \E k \in 1..Len(fill) : fill[k] \in {"loading", "livening"}

\* let add = ele => this.elementsById.set( getId( ele ), ele )
remoteAdd(m, ele) == MapSet(m, getId(ele), ele)

\* let remove = id => this.elementsById.delete( id )
remoteRemove(m, id) == MapDelete(m, id)

\* filledAdded.forEach( f => add( f.ele, f.entry ) )
RECURSIVE commitAdded(_, _)
commitAdded(m, filled) ==
  IF filled = <<>> THEN m
  ELSE commitAdded(remoteAdd(m, Head(filled).ele), Tail(filled))

\* filledRemoved.forEach( f => remove( f.ele, f.entry ) )
RECURSIVE commitRemoved(_, _)
commitRemoved(m, filled) ==
  IF filled = <<>> THEN m
  ELSE commitRemoved(remoteRemove(m, Head(filled).ele), Tail(filled))

RECURSIVE emitsAdded(_)
emitsAdded(filled) ==
  IF filled = <<>> THEN <<>>
  ELSE LET f == Head(filled)
       IN << Evt("add", f.ele, f.entry.group, UNDEF),
             Evt("remoteadd", f.ele, f.entry.group, UNDEF) >>
          \o emitsAdded(Tail(filled))

RECURSIVE emitsRemoved(_)
emitsRemoved(filled) ==
  IF filled = <<>> THEN <<>>
  ELSE LET f == Head(filled)
       IN << Evt("remove", f.ele, f.entry.group, UNDEF),
             Evt("remoteremove", f.ele, f.entry.group, UNDEF) >>
          \o emitsRemoved(Tail(filled))

\* the queue after the commit callback: additions first, then removals
commitEmitsRemovedFirst(filledAdded, filledRemoved) ==
  emitsRemoved(filledRemoved) \o emitsAdded(filledAdded)

commitEmits(filledAdded, filledRemoved) ==
  emitsAdded(filledAdded) \o emitsRemoved(filledRemoved)

\* sameEntries.forEach( ent => ... enqueueEmit( 'regroup', ... ) )
RECURSIVE emitsRegroup(_, _, _, _)
emitsRegroup(same, changes, old, m) ==
  IF same = <<>> THEN <<>>
  ELSE LET id == Head(same).id
           ele == MapGet(m, IdVal(id))
           oldEnt == find(old, id)
           newEnt == find(changes, id)
       IN (IF newEnt.group # oldEnt.group
           THEN << Evt("regroup", ele, newEnt.group, oldEnt.group),
                   Evt("remoteregroup", ele, newEnt.group, oldEnt.group) >>
           ELSE <<>>)
          \o emitsRegroup(Tail(same), changes, old, m)

\* ------------------------------------------------------------------ syncher
\* syncher.push({ entries: entry }): the entry is appended to the list
SyncherPush(es, entry) == Append(es, entry)

\* syncher.pullById({ entries: id }): a record of that id, the first in the
\* list, leaves the list
SyncherPullById(es, i) ==
  IF \E k \in 1..Len(es) : es[k].id = i
  THEN LET at == CHOOSE k \in 1..Len(es) :
                   es[k].id = i /\ \A j \in 1..(k - 1) : es[j].id # i
       IN [k \in 1..(Len(es) - 1) |-> IF k < at THEN es[k] ELSE es[k + 1]]
  ELSE es

\* syncher.mergeById({ entries: { id, group } }): the record of that id is patched
SyncherMergeById(es, i, g) ==
  [k \in 1..Len(es) |-> IF es[k].id = i THEN [es[k] EXCEPT !.group = g] ELSE es[k]]

IsSorted(s) == \A k \in 1..(Len(s) - 1) : s[k].id < s[k + 1].id

\* the entry lists a remote party sends: in Spec two ids in id order, in
\* SpecBatch three ids in any order
RemoteEntrySeqs == {s \in UniqueSeqs(CallIds, {NULL} \cup Tags) : IsSorted(s)}
BatchEntrySeqs == UniqueSeqs(Ids, {NULL} \cup Tags)

\* the entry lists a stored document can be opened with
InitEntrySeqs == UniqueSeqs(CallIds, GroupVals)

\* ------------------------------------------------------------------ maybeSynchElement
\* TRUE when maybeSynchElement calls ele.synch( true )
needsSynch(isLive, liveEles, ele) == isLive /\ ele.id \notin liveEles

\* ------------------------------------------------------------------ diff steps
RemoveAt(s, d) == [k \in 1..(Len(s) - 1) |-> IF k < d THEN s[k] ELSE s[k + 1]]

\* the promise chain of a handler after one of its fillEntry promises moved
afterFill(rec, fill) ==
  LET all == PromiseAll(fill)
      pc == IF rec.pc # "fill" THEN rec.pc
            ELSE IF all = "rejected" THEN "rejected"
            ELSE IF all = "fulfilled" THEN "commit"
            ELSE "fill"
  IN [rec EXCEPT !.fill = fill, !.pc = pc]

\* a handler whose chain was rejected is over once its last load has settled
putDiff(ds, d, rec) ==
  IF rec.pc = "rejected" /\ ~Pending(rec.fill) THEN RemoveAt(ds, d)
  ELSE [ds EXCEPT ![d] = rec]

\* syncher.on('remoteupdate', ( changes, old ) => ...), up to the first promise
Deliver(changes, inFlight) ==
  /\ ctor.subscriptions > 0
  /\ ops < MaxOps
  /\ Len(diffs) < inFlight
  /\ changes # entries
  /\ LET old == entries
         added == addedEntries(changes, old)
         rec == [pc |-> IF added = <<>> THEN "commit" ELSE "fill",
                 changes |-> changes, old |-> old,
                 filledRemoved |->
                   filledRemovedOf(removedEntries(changes, old), elementsById),
                 fill |-> [k \in 1..Len(added) |-> "loading"],
                 order |-> <<>>,
                 emits |-> <<>>]
     IN /\ diffs' = Append(diffs, rec)
        /\ entries' = changes
        /\ last' = Internal("remoteupdate", rec)
  /\ ops' = ops + 1
  /\ UNCHANGED <<synchs, doc, docEles, ctor, live, eleLive, elementsById, le>>

\* a delivery while fewer than MaxDiffs handlers are in flight
RemoteUpdate(changes) == Deliver(changes, MaxDiffs)

\* load( id ) resolved: liven( ele ) runs
DiffLoadResolved(d, k) ==
  /\ d \in 1..Len(diffs)
  /\ k \in 1..Len(diffs[d].fill)
  /\ diffs[d].fill[k] = "loading"
  /\ LET rec == diffs[d]
         entry == addedEntries(rec.changes, rec.old)[k]
         ele == CacheLoad(getId(entry))
         st == IF needsSynch(live, eleLive, ele) THEN "livening" ELSE "filled"
         rec1 == IF st = "filled" THEN [rec EXCEPT !.order = Append(@, k)] ELSE rec
         rec2 == afterFill(rec1, [rec.fill EXCEPT ![k] = st])
     IN /\ diffs' = putDiff(diffs, d, rec2)
        /\ last' = Internal("loaded", NoDiff)
  /\ UNCHANGED <<synchs, doc, docEles, ctor, entries, live, eleLive, elementsById, le, ops>>

\* load( id ) rejected
DiffLoadRejected(d, k) ==
  /\ d \in 1..Len(diffs)
  /\ k \in 1..Len(diffs[d].fill)
  /\ diffs[d].fill[k] = "loading"
  /\ LET rec == diffs[d]
         rec2 == afterFill(rec, [rec.fill EXCEPT ![k] = "rejected"])
     IN /\ diffs' = putDiff(diffs, d, rec2)
        /\ last' = Internal("loadfailed", rec2)
  /\ UNCHANGED <<synchs, doc, docEles, ctor, entries, live, eleLive, elementsById, le, ops>>

\* ele.synch( true ) of maybeSynchElement resolved
DiffSynchResolved(d, k) ==
  /\ d \in 1..Len(diffs)
  /\ k \in 1..Len(diffs[d].fill)
  /\ diffs[d].fill[k] = "livening"
  /\ LET rec == diffs[d]
         entry == addedEntries(rec.changes, rec.old)[k]
         rec2 == afterFill([rec EXCEPT !.order = Append(@, k)],
                           [rec.fill EXCEPT ![k] = "filled"])
     IN /\ diffs' = putDiff(diffs, d, rec2)
        /\ eleLive' = eleLive \cup {entry.id}
        /\ last' = Internal("synched", NoDiff)
  /\ UNCHANGED <<synchs, doc, docEles, ctor, entries, live, elementsById, le, ops>>

\* ele.synch( true ) of maybeSynchElement rejected
DiffSynchRejected(d, k) ==
  /\ d \in 1..Len(diffs)
  /\ k \in 1..Len(diffs[d].fill)
  /\ diffs[d].fill[k] = "livening"
  /\ LET rec == diffs[d]
         rec2 == afterFill(rec, [rec.fill EXCEPT ![k] = "rejected"])
     IN /\ diffs' = putDiff(diffs, d, rec2)
        /\ last' = Internal("synchfailed", rec2)
  /\ UNCHANGED <<synchs, doc, docEles, ctor, entries, live, eleLive, elementsById, le, ops>>

\* .then( filledAdded => ... ): additions, then removals, go into the index.
\* When the diff added an entry, the two callbacks chained behind this one run
\* in the same queue item of bluebird, with nothing in between: regroup
\* detection on the index just written, then dequeueEmits(). When the diff
\* added no entry, Promise.all([]) is resolved from the start and each of the
\* three callbacks is a queue item of its own: DiffRegroup and DiffFlush follow.
DiffCommit(d) ==
  /\ d \in 1..Len(diffs)
  /\ diffs[d].pc = "commit"
  /\ LET rec == diffs[d]
         added == addedEntries(rec.changes, rec.old)
         filledAdded == filledAddedOf(added, rec.order)
         m == commitRemoved(commitAdded(elementsById, filledAdded), rec.filledRemoved)
         queued == rec.emits \o commitEmits(filledAdded, rec.filledRemoved)
         emits == queued \o emitsRegroup(sameEntries(rec.changes, rec.old),
                                         rec.changes, rec.old, m)
         rec2 == [rec EXCEPT !.pc = "regroup", !.emits = queued]
     IN /\ elementsById' = m
        /\ IF added # <<>>
           THEN /\ diffs' = RemoveAt(diffs, d)
                /\ last' = Last("flush", NoEle, emits, <<>>, "none",
                                [rec EXCEPT !.pc = "done", !.emits = emits])
           ELSE /\ diffs' = [diffs EXCEPT ![d] = rec2]
                /\ last' = Internal("commit", rec2)
  /\ UNCHANGED <<synchs, doc, docEles, ctor, entries, live, eleLive, le, ops>>

\* .then( () => sameEntries.forEach( ... ) ) of a diff that added no entry:
\* regroup detection, on the index as it is when this queue item runs
DiffRegroup(d) ==
  /\ d \in 1..Len(diffs)
  /\ diffs[d].pc = "regroup"
  /\ LET rec == diffs[d]
         rec2 == [rec EXCEPT
                    !.pc = "flush",
                    !.emits = rec.emits \o
                      emitsRegroup(sameEntries(rec.changes, rec.old),
                                   rec.changes, rec.old, elementsById)]
     IN /\ diffs' = [diffs EXCEPT ![d] = rec2]
        /\ last' = Internal("regroups", rec2)
  /\ UNCHANGED <<synchs, doc, docEles, ctor, entries, live, eleLive, elementsById, le, ops>>

\* .then( () => dequeueEmits() ) of a diff that added no entry
DiffFlush(d) ==
  /\ d \in 1..Len(diffs)
  /\ diffs[d].pc = "flush"
  /\ diffs' = RemoveAt(diffs, d)
  /\ last' = Last("flush", NoEle, diffs[d].emits, <<>>, "none",
                  [diffs[d] EXCEPT !.pc = "done"])
  /\ UNCHANGED <<synchs, doc, docEles, ctor, entries, live, eleLive, elementsById, le, ops>>

\* ------------------------------------------------------------------ loadElements
NoLoad == [pc |-> "none", ents |-> <<>>, fill |-> <<>>]

\* a chain that does not wait for the synch step of the entries
LoadAllAdded(fill) ==
  IF \E k \in 1..Len(fill) : fill[k] = "rejected" THEN "rejected"
  ELSE IF \A k \in 1..Len(fill) : fill[k] \in {"added", "synching", "done"}
       THEN "fulfilled"
  ELSE "pending"

\* Promise.all over the fillInEntry promises
LoadAll(fill) ==
  IF \E k \in 1..Len(fill) : fill[k] = "rejected" THEN "rejected"
  ELSE IF \A k \in 1..Len(fill) : fill[k] = "done" THEN "fulfilled"
  ELSE "pending"

afterLoad(rec, fill) ==
  LET all == LoadAll(fill)
      pc == IF rec.pc # "running" THEN rec.pc
            ELSE IF all = "rejected" THEN "rejected"
            ELSE IF all = "fulfilled" THEN "emit"
            ELSE "running"
  IN [rec EXCEPT !.fill = fill, !.pc = pc]

\* let add = ele => { this.elementsById.set( ele.id(), ele ); return ele; }
loadAdd(m, ele) == MapSet(m, IdVal(ele.id), ele)

\* Promise.all( this.syncher.get('entries').map( fillInEntry ) ): one
\* fillInEntry chain per entry, each waiting for its load
fillInEntries(es) ==
  [pc |-> IF es = <<>> THEN "emit" ELSE "running",
   ents |-> es,
   fill |-> [k \in 1..Len(es) |-> "loading"]]

\* loadElements(), up to the first promise
LoadElements ==
  /\ ops < MaxOps
  /\ le.pc = "none"
  /\ le' = fillInEntries(entries)
  /\ last' = Last("loadElements", NoEle, <<>>, <<>>, "pending", NoDiff)
  /\ ops' = ops + 1
  /\ UNCHANGED <<synchs, doc, docEles, ctor, entries, live, eleLive, elementsById, diffs>>

\* loadEle( entry ) resolved: add( ele ) runs
LoadEleResolved(k) ==
  /\ k \in 1..Len(le.fill)
  /\ le.fill[k] = "loading"
  /\ elementsById' = loadAdd(elementsById, CacheLoad(IdVal(le.ents[k].id)))
  /\ le' = afterLoad(le, [le.fill EXCEPT ![k] = "added"])
  /\ last' = Internal("le-added", NoDiff)
  /\ UNCHANGED <<synchs, doc, docEles, ctor, entries, live, eleLive, diffs, ops>>

\* .then( synch ): maybeSynchElement( ele ) runs, in a queue item of its own
\* when the promise of the cache was made by a resolver or was resolved already
LoadEleSynch(k) ==
  /\ k \in 1..Len(le.fill)
  /\ le.fill[k] = "added"
  /\ LET ele == CacheLoad(IdVal(le.ents[k].id))
         st == IF needsSynch(live, eleLive, ele) THEN "synching" ELSE "done"
     IN le' = afterLoad(le, [le.fill EXCEPT ![k] = st])
  /\ last' = Internal("le-synch", NoDiff)
  /\ UNCHANGED <<synchs, doc, docEles, ctor, entries, live, eleLive, elementsById, diffs, ops>>

\* loadEle( entry ) rejected
LoadEleRejected(k) ==
  /\ k \in 1..Len(le.fill)
  /\ le.fill[k] = "loading"
  /\ le' = afterLoad(le, [le.fill EXCEPT ![k] = "rejected"])
  /\ last' = Internal("le-loadfailed", NoDiff)
  /\ UNCHANGED <<synchs, doc, docEles, ctor, entries, live, eleLive, elementsById, diffs, ops>>

\* ele.synch( true ) of maybeSynchElement resolved
LoadEleSynchResolved(k) ==
  /\ k \in 1..Len(le.fill)
  /\ le.fill[k] = "synching"
  /\ eleLive' = eleLive \cup {le.ents[k].id}
  /\ le' = afterLoad(le, [le.fill EXCEPT ![k] = "done"])
  /\ last' = Internal("le-synched", NoDiff)
  /\ UNCHANGED <<synchs, doc, docEles, ctor, entries, live, elementsById, diffs, ops>>

\* ele.synch( true ) of maybeSynchElement rejected
LoadEleSynchRejected(k) ==
  /\ k \in 1..Len(le.fill)
  /\ le.fill[k] = "synching"
  /\ le' = afterLoad(le, [le.fill EXCEPT ![k] = "rejected"])
  /\ last' = Internal("le-synchfailed", NoDiff)
  /\ UNCHANGED <<synchs, doc, docEles, ctor, entries, live, eleLive, elementsById, diffs, ops>>

\* .then( () => this.emitter.emit('loadelements') )
LoadElementsEmit ==
  /\ le.pc = "emit"
  /\ le' = [le EXCEPT !.pc = "resolved"]
  /\ last' = Last("loadElements-done", NoEle,
                  <<Evt("loadelements", NoEle, UNDEF, UNDEF)>>, <<>>, "resolved", NoDiff)
  /\ UNCHANGED <<synchs, doc, docEles, ctor, entries, live, eleLive, elementsById, diffs, ops>>

\* ------------------------------------------------------------------ local API
Truthy(g) == g \in Tags

\* group( ele ): "TypeError" stands for the throw of `undefined.group`
TypeError == "TypeError"
group(m, es, ele) ==
  IF ~has(m, ele) THEN UNDEF
  ELSE LET hit(en) == IdVal(en.id) = getId(ele)
           f == SelectSeq(es, hit)
       IN IF f = <<>> THEN TypeError ELSE f[1].group

\* elements( group ): the entries that match, each mapped to its element in the
\* index, the ones without an element dropped
elements(m, es, g) ==
  LET matches(en) == g \in {UNDEF, NULL} \/ en.group = g
      isNonNil(x) == x # NoEle
      matched == SelectSeq(es, matches)
      eles == [k \in 1..Len(matched) |-> get(m, IdVal(matched[k].id))]
  IN SelectSeq(eles, isNonNil)

\* an emitter that is called whatever opts.silent is
publishAlways(silent, evts) == evts

\* if( !silent ){ this.emitter.emit( ... ); this.emitter.emit( ... ); }
publish(silent, evts) == IF silent THEN <<>> ELSE evts

\* an add() that leaves the index alone until the push has resolved
addToIndexLater(m, id, ele) == m

\* this.elementsById.set( id, ele ) of add()
addToIndex(m, id, ele) == MapSet(m, id, ele)

\* add( ele, opts )
Add(i, g, silent) ==
  LET ele == Ele(i)
      id == getId(ele)
      entry == IF Truthy(g) THEN Entry(i, g) ELSE Entry(i, UNDEF)
  IN /\ ops < MaxOps
     /\ ops' = ops + 1
     /\ IF has(elementsById, ele)
        THEN /\ last' = [Last("add", ele, <<>>, <<>>, "resolved", NoDiff)
                          EXCEPT !.group = g]
             /\ UNCHANGED <<synchs, doc, docEles, ctor, entries, live, eleLive, elementsById, diffs, le>>
        ELSE /\ elementsById' = addToIndex(elementsById, id, ele)
             /\ entries' = SyncherPush(entries, entry)
             /\ last' = [Last("add", ele,
                              publish(silent,
                                      <<Evt("add", ele, g, UNDEF), Evt("localadd", ele, g, UNDEF)>>),
                              <<StoreCall("push", i, entry.group, silent)>>,
                              "updatePromise", NoDiff)
                          EXCEPT !.group = g]
             /\ UNCHANGED <<synchs, doc, docEles, ctor, live, eleLive, diffs, le>>

\* if( id === ele ){ ele = this.get( id ); } of remove()
removeEleAsGiven(m, x) == x

removeEle(m, x) == IF getId(x) = x THEN get(m, getId(x)) ELSE x

\* remove() of an element that is not in the index
RemoveAbsent(x) ==
  /\ last' = Last("remove", x, <<>>, <<>>, "resolved", NoDiff)
  /\ UNCHANGED <<synchs, doc, docEles, ctor, entries, live, eleLive, elementsById, diffs, le>>

\* remove() past its has() check
RemovePresent(x, silent) ==
  LET id == getId(x)
      ele == removeEle(elementsById, x)
      entry == find(entries, id.id)
  IN /\ elementsById' = MapDelete(elementsById, id)
     /\ IF entry = NoEntry
        THEN /\ last' = Last("remove", x, <<>>, <<>>, "threw", NoDiff)
             /\ UNCHANGED <<synchs, doc, docEles, ctor, entries, live, eleLive, diffs, le>>
        ELSE /\ entries' = SyncherPullById(entries, id.id)
             /\ last' = Last("remove", x,
                             publish(silent,
                                     <<Evt("remove", ele, entry.group, UNDEF),
                                    Evt("localremove", ele, entry.group, UNDEF)>>),
                             <<StoreCall("pullById", id.id, UNDEF, silent)>>,
                             "updatePromise", NoDiff)
             /\ UNCHANGED <<synchs, doc, docEles, ctor, live, eleLive, diffs, le>>

\* remove() without its has() check
RemoveUnchecked(x, silent) ==
  /\ ops < MaxOps
  /\ ops' = ops + 1
  /\ RemovePresent(x, silent)

\* remove( ele, opts ), ele an element or an id
Remove(x, silent) ==
  /\ ops < MaxOps
  /\ ops' = ops + 1
  /\ IF ~has(elementsById, x) THEN RemoveAbsent(x) ELSE RemovePresent(x, silent)

\* if( id === ele ){ ele = this.get( id ); } of regroup()
regroupEle(m, x) == IF getId(x) = x THEN get(m, getId(x)) ELSE x

\* a regroup() that hands the group to the store as it was given
regroupGroupAsGiven(g) == g

\* if( group === undefined ){ group = null; } of regroup()
regroupGroup(g) == IF g = UNDEF THEN NULL ELSE g

\* regroup( ele, opts ), ele an element or an id
Regroup(x, g, silent) ==
  LET oldGroup == group(elementsById, entries, x)
      id == getId(x)
      ele == regroupEle(elementsById, x)
      g2 == regroupGroup(g)
  IN /\ ops < MaxOps
     /\ ops' = ops + 1
     /\ IF ~has(elementsById, x)
        THEN /\ last' = [Last("regroup", x, <<>>, <<>>, "resolved", NoDiff)
                          EXCEPT !.group = g]
             /\ UNCHANGED <<synchs, doc, docEles, ctor, entries, live, eleLive, elementsById, diffs, le>>
        ELSE IF oldGroup = TypeError
        THEN /\ last' = [Last("regroup", x, <<>>, <<>>, "threw", NoDiff)
                          EXCEPT !.group = g]
             /\ UNCHANGED <<synchs, doc, docEles, ctor, entries, live, eleLive, elementsById, diffs, le>>
        ELSE /\ entries' = SyncherMergeById(entries, id.id, g2)
             /\ last' = [Last("regroup", x,
                              publish(silent,
                                      <<Evt("regroup", ele, g2, oldGroup),
                                        Evt("localregroup", ele, g2, oldGroup)>>),
                              <<StoreCall("mergeById", id.id, g2, silent)>>,
                              "updatePromise", NoDiff)
                          EXCEPT !.group = g]
             /\ UNCHANGED <<synchs, doc, docEles, ctor, live, eleLive, elementsById, diffs, le>>

\* what the promise of a syncher call is settled with
StoreErrors == {"ErrA", "ErrB"}
StoreOutcomes == {"fulfilled"} \cup StoreErrors

\* a call that swallows the rejection of the syncher
updatePromiseCaught(outcome) == "fulfilled"

\* return updatePromise: the caller holds the promise of the syncher itself
updatePromise(outcome) == outcome

\* the promise of the push, pullById or mergeById of the last call is settled
StoreSettled(outcome) ==
  /\ last.result = "updatePromise"
  /\ last.store # <<>>
  /\ last.store[1].outcome = "pending"
  /\ last' = [last EXCEPT !.store[1].outcome = outcome,
                          !.result = updatePromise(outcome)]
  /\ UNCHANGED <<synchs, doc, docEles, ctor, entries, live, eleLive, elementsById, diffs, le, ops>>

\* ------------------------------------------------------------------ specification
EleArgs == {Ele(i) : i \in CallIds} \cup {IdVal(i) : i \in CallIds}

\* a new document: no entries, nothing loaded, not live
Init ==
  /\ entries = <<>>
  /\ live = FALSE
  /\ eleLive = {}
  /\ elementsById = [i \in Ids |-> NoEle]
  /\ diffs = <<>>
  /\ le = NoLoad
  /\ last = Internal("init", NoDiff)
  /\ ops = 0
  /\ ctor = Constructed
  /\ docEles = Entities
  /\ synchs = <<>>
  /\ doc = NoDoc

DiffStep ==
  \/ \E d \in 1..Len(diffs), k \in 1..Cardinality(Ids) : DiffLoadResolved(d, k)
  \/ \E d \in 1..Len(diffs), k \in 1..Cardinality(Ids) : DiffLoadRejected(d, k)
  \/ \E d \in 1..Len(diffs) : DiffCommit(d)
  \/ \E d \in 1..Len(diffs) : DiffRegroup(d)
  \/ \E d \in 1..Len(diffs) : DiffFlush(d)

DiffSynchStep ==
  \/ \E d \in 1..Len(diffs), k \in 1..Cardinality(Ids) : DiffSynchResolved(d, k)
  \/ \E d \in 1..Len(diffs), k \in 1..Cardinality(Ids) : DiffSynchRejected(d, k)

Next ==
  \/ \E changes \in RemoteEntrySeqs : RemoteUpdate(changes)
  \/ DiffStep
  \/ \E i \in CallIds, g \in {UNDEF} \cup Tags, silent \in BOOLEAN : Add(i, g, silent)
  \/ \E x \in EleArgs, silent \in BOOLEAN : Remove(x, silent)
  \/ \E x \in EleArgs, g \in GroupVals, silent \in BOOLEAN : Regroup(x, g, silent)

Spec == Init /\ [][Next]_vars

\* a call el.synch( enable ) on the element of id i
EleSynchCall(i, enable) == [op |-> "ele.synch", id |-> i, enable |-> enable]

\* synch() calls of the set whose promises are pending at once
MaxSynchs == 1

\* Promise.all over the el.synch() promises: rejected with the first rejection,
\* fulfilled when every one is fulfilled; later settlements leave it as it is
synchPromise(result, state) ==
  IF result # "pending" THEN result
  ELSE IF \E k \in 1..Len(state) : state[k] = "rejected" THEN "rejected"
  ELSE IF \A k \in 1..Len(state) : state[k] = "fulfilled" THEN "resolved"
  ELSE "pending"

\* the synch() calls after the el.synch() promise k of call s has settled; a
\* call with no promise left pending is done with
settleSynch(ss, s, k, how) ==
  LET state == [ss[s].state EXCEPT ![k] = how]
      rec == [ss[s] EXCEPT !.state = state,
                           !.result = synchPromise(ss[s].result, state)]
  IN IF \E j \in 1..Len(state) : state[j] = "pending"
     THEN [ss EXCEPT ![s] = rec]
     ELSE RemoveAt(ss, s)

\* the body of synch( enable ): el.synch( enable ) on each of this.elements(),
\* joined by Promise.all
synchElements(enable) ==
  LET els == elements(elementsById, entries, UNDEF)
      calls == [k \in 1..Len(els) |-> EleSynchCall(els[k].id, enable)]
  IN /\ last' = Last("synch", NoEle, <<>>, calls,
                     IF els = <<>> THEN "resolved" ELSE "promiseAll", NoDiff)
     /\ synchs' = IF els = <<>> THEN synchs
                  ELSE Append(synchs, [calls |-> calls,
                                       state |-> [k \in 1..Len(els) |-> "pending"],
                                       result |-> "pending"])

\* synch( enable ), called on the set
Synch(enable) ==
  /\ ops < MaxOps
  /\ Len(synchs) + Len(doc.synch) < MaxSynchs
  /\ ops' = ops + 1
  /\ synchElements(enable)
  /\ UNCHANGED <<doc, docEles, ctor, entries, live, eleLive, elementsById, diffs, le>>

\* the promise of el.synch( enable ) number k of the synch() call s resolves:
\* the element is live, or no longer live, from now on
SynchResolved(s, k) ==
  /\ s <= Len(synchs)
  /\ k <= Len(synchs[s].calls)
  /\ synchs[s].state[k] = "pending"
  /\ LET call == synchs[s].calls[k]
         state == [synchs[s].state EXCEPT ![k] = "fulfilled"]
     IN /\ eleLive' = IF call.enable THEN eleLive \cup {call.id} ELSE eleLive \ {call.id}
        /\ last' = Last("synched", Ele(call.id), <<>>, <<>>,
                        synchPromise(synchs[s].result, state), NoDiff)
  /\ synchs' = settleSynch(synchs, s, k, "fulfilled")
  /\ UNCHANGED <<doc, docEles, ctor, entries, live, elementsById, diffs, le, ops>>

\* the promise of el.synch( enable ) number k of the synch() call s is rejected
SynchRejected(s, k) ==
  /\ s <= Len(synchs)
  /\ k <= Len(synchs[s].calls)
  /\ synchs[s].state[k] = "pending"
  /\ LET call == synchs[s].calls[k]
         state == [synchs[s].state EXCEPT ![k] = "rejected"]
     IN last' = Last("synchfailed", Ele(call.id), <<>>, <<>>,
                     synchPromise(synchs[s].result, state), NoDiff)
  /\ synchs' = settleSynch(synchs, s, k, "rejected")
  /\ UNCHANGED <<doc, docEles, ctor, entries, live, eleLive, elementsById, diffs, le, ops>>

SynchStep ==
  \/ \E s \in 1..Len(synchs), k \in 1..(Cardinality(Ids) + 1) : SynchResolved(s, k)
  \/ \E s \in 1..Len(synchs), k \in 1..(Cardinality(Ids) + 1) : SynchRejected(s, k)

\* this.syncher.synch( enable ): the live flag of the syncher from then on
SyncherSynch(enable) == enable

\* Document.synch( enable ): the syncher first, the set in the callback of its
\* promise
DocumentSynch(enable) ==
  /\ ops < MaxOps
  /\ Len(synchs) + Len(doc.synch) < MaxSynchs
  /\ ops' = ops + 1
  /\ live' = SyncherSynch(enable)
  /\ doc' = [doc EXCEPT !.synch = Append(@, enable)]
  /\ last' = Last("Document.synch", NoEle, <<>>, <<>>, "promise", NoDiff)
  /\ UNCHANGED <<synchs, docEles, ctor, entries, eleLive, elementsById, diffs, le>>

\* .then( () => this.elementSet.synch( enable ) ) of Document.synch
DocumentSynchThen ==
  /\ doc.synch # <<>>
  /\ synchElements(Head(doc.synch))
  /\ doc' = [doc EXCEPT !.synch = Tail(@)]
  /\ UNCHANGED <<docEles, ctor, entries, live, eleLive, elementsById, diffs, le, ops>>

\* the promise of this.syncher.synch( enable ) is rejected: the set is not
\* asked to synch
DocumentSynchRejected ==
  /\ doc.synch # <<>>
  /\ doc' = [doc EXCEPT !.synch = Tail(@)]
  /\ last' = Last("Document.synch", NoEle, <<>>, <<>>, "rejected", NoDiff)
  /\ UNCHANGED <<synchs, docEles, ctor, entries, live, eleLive, elementsById, diffs, le, ops>>

DocumentSynchStep ==
  \/ \E enable \in BOOLEAN : DocumentSynch(enable)
  \/ DocumentSynchThen
  \/ DocumentSynchRejected

NextSynch ==
  \/ Next
  \/ DiffSynchStep
  \/ \E enable \in BOOLEAN : Synch(enable)
  \/ SynchStep
  \/ DocumentSynchStep

SpecSynch == Init /\ [][NextSynch]_vars

\* the calls and remote diffs of Spec, with the promises of the syncher settled
NextStore ==
  \/ Next
  \/ \E outcome \in StoreOutcomes : StoreSettled(outcome)

SpecStore == Init /\ [][NextStore]_vars

\* a syncher of a new document, with or without the entries field
NewEntrySeqs == UniqueSeqs(CallIds, {NULL})

\* a test that takes an empty entries list for a missing one
hasEntriesNonEmpty(declared, es) == declared /\ es # <<>>

\* this.syncher.get('entries') is truthy: the field is there (an empty array
\* is truthy too)
hasEntries(declared, es) == declared

\* constructor( opts ): throws without entries, else sets up the index and
\* subscribes to remoteupdate
Construct ==
  /\ ctor.status = "new"
  /\ IF ~hasEntries(ctor.declared, entries)
     THEN /\ ctor' = [ctor EXCEPT !.status = "threw"]
          /\ last' = Last("constructor", NoEle, <<>>, <<>>, "threw", NoDiff)
          /\ UNCHANGED elementsById
     ELSE /\ elementsById' = [i \in Ids |-> NoEle]
          /\ ctor' = [ctor EXCEPT !.status = "constructed",
                                  !.subscriptions = ctor.subscriptions + 1]
          /\ last' = Last("constructor", NoEle, <<>>, <<>>, "constructed", NoDiff)
  /\ UNCHANGED <<synchs, doc, docEles, entries, live, eleLive, diffs, le, ops>>

\* before new ElementSet( opts )
InitNew ==
  /\ \E declared \in BOOLEAN :
       /\ ctor = [status |-> "new", subscriptions |-> 0, declared |-> declared]
       /\ entries \in (IF declared THEN NewEntrySeqs ELSE {<<>>})
  /\ live = FALSE
  /\ eleLive = {}
  /\ elementsById = [i \in Ids |-> NoEle]
  /\ diffs = <<>>
  /\ le = NoLoad
  /\ last = Internal("init", NoDiff)
  /\ ops = 0
  /\ docEles = Entities
  /\ synchs = <<>>
  /\ doc = NoDoc

NextNew ==
  \/ Construct
  \/ ctor.status = "constructed" /\ Next

SpecNew == InitNew /\ [][NextNew]_vars

\* opening a stored document: loadElements() on the entries it was stored with
InitLoad ==
  /\ entries \in InitEntrySeqs
  /\ live \in BOOLEAN
  /\ eleLive \in SUBSET CallIds
  /\ elementsById = [i \in Ids |-> NoEle]
  /\ diffs = <<>>
  /\ le = NoLoad
  /\ last = Internal("init", NoDiff)
  /\ ops = 0
  /\ ctor = Constructed
  /\ docEles = Entities
  /\ synchs = <<>>
  /\ doc = NoDoc

NextLoad ==
  \/ LoadElements
  \/ \E k \in 1..Len(le.fill) : LoadEleResolved(k)
  \/ \E k \in 1..Len(le.fill) : LoadEleRejected(k)
  \/ \E k \in 1..Len(le.fill) : LoadEleSynch(k)
  \/ \E k \in 1..Len(le.fill) : LoadEleSynchResolved(k)
  \/ \E k \in 1..Len(le.fill) : LoadEleSynchRejected(k)
  \/ LoadElementsEmit

SpecLoad == InitLoad /\ [][NextLoad]_vars

\* one remote diff over three ids, delivered to an opened document some of
\* whose entries are loaded
SortedSeqs == {s \in UniqueSeqs(Ids, {NULL}) : IsSorted(s)}

InitBatch ==
  /\ entries \in SortedSeqs
  /\ live \in BOOLEAN
  /\ eleLive = {}
  /\ \E loaded \in SUBSET EntryIds(entries) :
       elementsById = [i \in Ids |-> IF i \in loaded THEN Ele(i) ELSE NoEle]
  /\ diffs = <<>>
  /\ le = NoLoad
  /\ last = Internal("init", NoDiff)
  /\ ops = 0
  /\ ctor = Constructed
  /\ docEles = Entities
  /\ synchs = <<>>
  /\ doc = NoDoc

NextBatch ==
  \/ \E changes \in BatchEntrySeqs : ops = 0 /\ RemoteUpdate(changes)
  \/ DiffStep
  \/ DiffSynchStep

SpecBatch == InitBatch /\ [][NextBatch]_vars

\* a stored document on which load() has just been called: calls and remote
\* diffs come, every load and synch resolves and every promise callback is run
\* in the end
StoredEntrySeqs == UniqueSeqs({1}, {NULL})

InitLive ==
  /\ entries \in StoredEntrySeqs
  /\ live \in BOOLEAN
  /\ eleLive = {}
  /\ elementsById = [i \in Ids |-> NoEle]
  /\ diffs = <<>>
  /\ le = fillInEntries(entries)
  /\ last = Last("loadElements", NoEle, <<>>, <<>>, "pending", NoDiff)
  /\ ops = 1
  /\ ctor = Constructed
  /\ docEles = Entities
  /\ synchs = <<>>
  /\ doc = NoDoc

DiffResolveStep ==
  \/ \E d \in 1..Len(diffs), k \in 1..Cardinality(Ids) : DiffLoadResolved(d, k)
  \/ \E d \in 1..Len(diffs), k \in 1..Cardinality(Ids) : DiffSynchResolved(d, k)
  \/ \E d \in 1..Len(diffs) : DiffCommit(d)
  \/ \E d \in 1..Len(diffs) : DiffRegroup(d)
  \/ \E d \in 1..Len(diffs) : DiffFlush(d)

LoadResolveStep ==
  \/ \E k \in 1..Len(le.fill) : LoadEleResolved(k)
  \/ \E k \in 1..Len(le.fill) : LoadEleSynch(k)
  \/ \E k \in 1..Len(le.fill) : LoadEleSynchResolved(k)
  \/ LoadElementsEmit

CallStep ==
  \/ \E changes \in RemoteEntrySeqs : RemoteUpdate(changes)
  \/ \E i \in CallIds, g \in {UNDEF} \cup Tags : Add(i, g, FALSE)
  \/ \E x \in EleArgs : Remove(x, FALSE)
  \/ \E x \in EleArgs, g \in Tags : Regroup(x, g, FALSE)

NextLive ==
  \/ CallStep
  \/ DiffResolveStep
  \/ LoadResolveStep

\* the calls of the client and the deliveries of the store are under no
\* fairness: the client and the other parties may stop at any time; the
\* promises resolve and their callbacks run
SpecLive ==
  /\ InitLive
  /\ [][NextLive]_vars
  /\ WF_vars(DiffResolveStep)
  /\ WF_vars(LoadResolveStep)

\* remote diffs delivered to a loaded document while the handler of the diff
\* before is still in flight; every load and synch resolves, no local call
MaxOverlap == 2

InitOverlap ==
  /\ entries \in RemoteEntrySeqs
  /\ live \in BOOLEAN
  /\ eleLive = {}
  /\ elementsById = [i \in Ids |-> IF i \in EntryIds(entries) THEN Ele(i) ELSE NoEle]
  /\ diffs = <<>>
  /\ le = NoLoad
  /\ last = Internal("init", NoDiff)
  /\ ops = 0
  /\ ctor = Constructed
  /\ docEles = Entities
  /\ synchs = <<>>
  /\ doc = NoDoc

NextOverlap ==
  \/ \E changes \in RemoteEntrySeqs : Deliver(changes, MaxOverlap)
  \/ DiffResolveStep

SpecOverlap == InitOverlap /\ [][NextOverlap]_vars

\* ------------------------------------------------------------------ Document.add
MaxStack == 4   \* nested calls of addEle the call stack has room for
MaxPpts == 2    \* participants of one interaction

\* el.isInteraction() and el.participants()
isInteraction(de, el) == de[el.id].interaction
participants(de, el) ==
  [k \in 1..Len(de[el.id].participants) |-> Ele(de[el.id].participants[k])]

\* the lists of at most n participants
RECURSIVE PptSeqs(_)
PptSeqs(n) ==
  IF n = 0 THEN {<<>>}
  ELSE PptSeqs(n - 1) \cup {Append(ps, i) : ps \in {q \in PptSeqs(n - 1) : Len(q) = n - 1}, i \in Ids}

\* the documents' elements: entities, and interactions over any participants,
\* themselves included; the ids the calls do not use are entities
DocElements ==
  {de \in [Ids -> {Entity} \cup {[interaction |-> TRUE, participants |-> ps] :
                                    ps \in PptSeqs(MaxPpts)}] :
     \A i \in Ids \ CallIds : de[i] = Entity}

\* the set as one call of Document.add has left it so far, what the call has
\* emitted and pushed, and whether the call stack has overflowed
Run(m, es) == [m |-> m, es |-> es, emits |-> <<>>, store |-> <<>>, threw |-> FALSE]

\* let add = el => this.elementSet.add( el ): add() without options
docAdd(el, r) ==
  IF has(r.m, el) THEN r
  ELSE [r EXCEPT !.m = addToIndex(r.m, getId(el), el),
                 !.es = SyncherPush(r.es, Entry(el.id, UNDEF)),
                 !.emits = r.emits \o publish(FALSE, <<Evt("add", el, UNDEF, UNDEF),
                                                       Evt("localadd", el, UNDEF, UNDEF)>>),
                 !.store = Append(r.store, StoreCall("push", el.id, UNDEF, FALSE))]

\* addEle and addIntn: participants first, each through addEle, then the
\* interaction itself; a call nested deeper than the stack allows throws
\* a RangeError that unwinds the whole call
RECURSIVE addEle(_, _, _, _)
RECURSIVE addPpts(_, _, _, _)
addEle(de, el, r, depth) ==
  IF r.threw THEN r
  ELSE IF depth > MaxStack THEN [r EXCEPT !.threw = TRUE]
  ELSE IF has(r.m, el) THEN r
  ELSE IF isInteraction(de, el)
  THEN LET r1 == addPpts(de, participants(de, el), r, depth + 1)
       IN IF r1.threw THEN r1 ELSE docAdd(el, r1)
  ELSE docAdd(el, r)

\* el.participants().map( addEle )
addPpts(de, ps, r, depth) ==
  IF ps = <<>> \/ r.threw THEN r
  ELSE addPpts(de, Tail(ps), addEle(de, Head(ps), r, depth), depth)

\* the body of Document.add( el ): what return addEle( el ) does to the set
documentAdd(el) ==
  LET r == addEle(docEles, el, Run(elementsById, entries), 1)
  IN /\ elementsById' = r.m
     /\ entries' = r.es
     /\ last' = Last("Document.add", el, r.emits, r.store,
                     IF r.threw THEN "threw"
                     ELSE IF has(elementsById, el) THEN "resolved" ELSE "promise",
                     NoDiff)

\* Document.add( el )
DocumentAdd(el) ==
  /\ ops < MaxOps
  /\ ops' = ops + 1
  /\ documentAdd(el)
  /\ UNCHANGED <<synchs, doc, docEles, ctor, live, eleLive, diffs, le>>

\* this.interactions(): the ids of the elements of the set that are
\* interactions
interactions(de, m, es) ==
  LET els == elements(m, es, UNDEF)
  IN {els[k].id : k \in {j \in 1..Len(els) : isInteraction(de, els[j])}}

\* intn.has( el ) and intn.remove( el ): the participants of the interaction
\* without el
intnHas(de, i, el) == el.id \in SeqToSet(de[i].participants)
intnRemove(de, i, el) ==
  LET keep(p) == p # el.id
  IN [de[i] EXCEPT !.participants = SelectSeq(@, keep)]

\* rmFromIntns(): el leaves every interaction of the document that has it
rmFromIntns(de, m, es, el) ==
  [i \in Ids |-> IF i \in interactions(de, m, es) /\ intnHas(de, i, el)
                 THEN intnRemove(de, i, el) ELSE de[i]]

\* Document.remove( el ): Promise.all([ rmFromIntns(), rm() ]), rm() being
\* this.elementSet.remove( el )
DocumentRemove(el) ==
  LET id == getId(el)
      ele == removeEle(elementsById, el)
      entry == find(entries, id.id)
  IN /\ ops < MaxOps
     /\ ops' = ops + 1
     /\ docEles' = rmFromIntns(docEles, elementsById, entries, el)
     /\ IF ~has(elementsById, el)
        THEN /\ last' = Last("Document.remove", el, <<>>, <<>>, "promise", NoDiff)
             /\ UNCHANGED <<entries, elementsById>>
        ELSE /\ elementsById' = MapDelete(elementsById, id)
             /\ IF entry = NoEntry
                THEN /\ last' = Last("Document.remove", el, <<>>, <<>>, "threw", NoDiff)
                     /\ UNCHANGED entries
                ELSE /\ entries' = SyncherPullById(entries, id.id)
                     /\ last' = Last("Document.remove", el,
                                     publish(FALSE,
                                             <<Evt("remove", ele, entry.group, UNDEF),
                                               Evt("localremove", ele, entry.group, UNDEF)>>),
                                     <<StoreCall("pullById", id.id, UNDEF, FALSE)>>,
                                     "promise", NoDiff)
     /\ UNCHANGED <<synchs, doc, ctor, live, eleLive, diffs, le>>

\* the elements of one json handed to Document.fromJson
MaxJson == 2
JsonSeqs == PptSeqs(MaxJson)

\* Document.fromJson( json ): one chain makeEl, createEl, addEl for each
\* element of the json, joined by Promise.all
DocumentFromJson(ids) ==
  /\ ops < MaxOps
  /\ doc.fromJson = <<>>
  /\ ops' = ops + 1
  /\ doc' = [doc EXCEPT !.fromJson = ids]
  /\ last' = Last("Document.fromJson", NoEle, <<>>, <<>>,
                  IF ids = <<>> THEN "resolved" ELSE "promise", NoDiff)
  /\ UNCHANGED <<synchs, docEles, ctor, entries, live, eleLive, elementsById, diffs, le>>

\* addEl = el => this.add( el ): the chain of element k has made and created
\* its element
FromJsonAdd(k) ==
  /\ k <= Len(doc.fromJson)
  /\ documentAdd(Ele(doc.fromJson[k]))
  /\ doc' = [doc EXCEPT !.fromJson = RemoveAt(@, k)]
  /\ UNCHANGED <<synchs, docEles, ctor, live, eleLive, diffs, le, ops>>

\* the factory or el.create() of the chain of element k fails: the element is
\* not added
FromJsonRejected(k) ==
  /\ k <= Len(doc.fromJson)
  /\ doc' = [doc EXCEPT !.fromJson = RemoveAt(@, k)]
  /\ last' = Last("Document.fromJson", Ele(doc.fromJson[k]), <<>>, <<>>, "rejected", NoDiff)
  /\ UNCHANGED <<synchs, docEles, ctor, entries, live, eleLive, elementsById, diffs, le, ops>>

FromJsonStep ==
  \/ \E ids \in JsonSeqs : DocumentFromJson(ids)
  \/ \E k \in 1..MaxJson : FromJsonAdd(k)
  \/ \E k \in 1..MaxJson : FromJsonRejected(k)

\* a new document and the elements its caller holds
InitDoc ==
  /\ entries = <<>>
  /\ live = FALSE
  /\ eleLive = {}
  /\ elementsById = [i \in Ids |-> NoEle]
  /\ diffs = <<>>
  /\ le = NoLoad
  /\ last = Internal("init", NoDiff)
  /\ ops = 0
  /\ ctor = Constructed
  /\ docEles \in DocElements
  /\ synchs = <<>>
  /\ doc = NoDoc

NextDoc ==
  \/ \E i \in Ids : DocumentAdd(Ele(i))
  \/ \E i \in Ids : DocumentRemove(Ele(i))
  \/ DocumentSynchStep
  \/ SynchStep
  \/ FromJsonStep

SpecDoc == InitDoc /\ [][NextDoc]_vars

\* ------------------------------------------------------------------ claims
IndexIds(m) == {i \in Ids : m[i] # NoEle}

\* the step runs the commit callback of a handler: alone when the diff added
\* no entry, with regroup detection and the flush when it added one
CommitRuns ==
  \/ last'.op = "commit"
  \/ last'.op = "flush" /\ addedEntries(last'.diff.changes, last'.diff.old) # <<>>

\* C1: when the commit of a remote diff has run, every removed entry whose
\* element was in the index at diff arrival has left the index, and the size
\* of the index has dropped by the number of such entries
C1_RemovedLeaveIndex ==
  [][ CommitRuns =>
        LET rec == last'.diff
            added == filledAddedOf(addedEntries(rec.changes, rec.old), rec.order)
            gone == {rec.filledRemoved[k].entry.id : k \in 1..Len(rec.filledRemoved)}
        IN /\ IndexIds(elementsById') \cap gone = {}
           /\ Cardinality(IndexIds(elementsById')) =
                Cardinality(IndexIds(commitAdded(elementsById, added)))
                  - Cardinality(gone) ]_vars

\* the place of an event kind in a batch, and a batch in publish order
Rank(evt) == IF evt = "add" THEN 1 ELSE IF evt = "remove" THEN 2
             ELSE IF evt = "regroup" THEN 3 ELSE 0

OrderedBatch(emits) ==
  /\ Len(emits) % 2 = 0
  /\ \A k \in 1..Len(emits) :
       IF k % 2 = 1
       THEN /\ Rank(emits[k].evt) > 0
            /\ emits[k + 1] = [emits[k] EXCEPT !.evt = "remote" \o emits[k].evt]
            /\ k + 2 <= Len(emits) => Rank(emits[k].evt) <= Rank(emits[k + 2].evt)
       ELSE TRUE

\* C2: the events of one remote diff are published as adjacent pairs, the
\* generic event first, all add pairs before all remove pairs before all
\* regroup pairs
C2_PublishOrder == (last.op = "flush") => OrderedBatch(last.emits)

C2_Witness ==
  /\ last.op = "flush"
  /\ \A r \in 1..3 : \E k \in 1..Len(last.emits) : Rank(last.emits[k].evt) = r

\* the steps of a handler before its commit
BeforeCommit == {"remoteupdate", "loaded", "loadfailed", "synched", "synchfailed"}

\* C3: from its arrival until its commit a remote diff changes nothing in the
\* index and publishes nothing; its additions, removals and regroup detection
\* are all done before its first event is published, so a callback that runs
\* during the flush sees every added element in the index and no removed one
C3_BatchAtomic ==
  /\ [][ (last'.op \in BeforeCommit) =>
           (elementsById' = elementsById /\ last'.emits = <<>>) ]_vars
  /\ []((last.op = "flush") =>
         /\ \A en \in SeqToSet(addedEntries(last.diff.changes, last.diff.old)) :
              elementsById[en.id] # NoEle
         /\ \A f \in SeqToSet(last.diff.filledRemoved) :
              elementsById[f.entry.id] = NoEle)

\* one of the fillEntry promises of the handler was rejected
Rejected(rec) == \E k \in 1..Len(rec.fill) : rec.fill[k] = "rejected"

\* C4: a remote diff one of whose loads or liveness activations was rejected
\* changes nothing in the index and publishes no event: its commit, regroup
\* detection and flush never run
C4_FailedDiffInert ==
  /\ [](\A d \in 1..Len(diffs) :
          Rejected(diffs[d]) => diffs[d].pc = "rejected" /\ diffs[d].emits = <<>>)
  /\ []((last.op \in {"commit", "regroups", "flush"}) => ~Rejected(last.diff))
  /\ [][ (Rejected(last'.diff) \/ \E d \in 1..Len(diffs) : Rejected(diffs[d])) =>
           (elementsById' = elementsById /\ last'.emits = <<>>) ]_vars

C4_Witness ==
  /\ last.op \in {"loadfailed", "synchfailed"}
  /\ \E k \in 1..Len(last.diff.fill) : last.diff.fill[k] = "filled"
  /\ last.diff.filledRemoved # <<>>

\* C5: when a load of loadElements() is rejected the index is as before the
\* call (empty) and no loadelements event is published
C5_LoadAllOrNothing ==
  (le.pc = "rejected") => (IndexIds(elementsById) = {} /\ last.emits = <<>>)

\* C6: a loadElements() that succeeds publishes one loadelements event and no
\* other event, after every entry was loaded, put into the index and passed
\* the synch step; with no entries the index stays empty
C6_LoadElementsEvent ==
  /\ (last.emits # <<>>) =>
       (last.op = "loadElements-done"
        /\ last.emits = <<Evt("loadelements", NoEle, UNDEF, UNDEF)>>)
  /\ (le.pc = "resolved") <=> (last.op = "loadElements-done")
  /\ (le.pc = "resolved") =>
       \A k \in 1..Len(le.ents) :
         /\ le.fill[k] = "done"
         /\ elementsById[le.ents[k].id] = Ele(le.ents[k].id)
         /\ live => le.ents[k].id \in eleLive
  /\ (le.pc = "resolved" /\ le.ents = <<>>) => IndexIds(elementsById) = {}

C6_Witness ==
  /\ le.pc = "resolved"
  /\ Len(le.ents) = 2
  /\ live
  /\ last.emits = <<Evt("loadelements", NoEle, UNDEF, UNDEF)>>

\* C7: add( x ) of an element that is not in the index raises the size of the
\* index by one and makes one push; add( x ) right after it changes nothing,
\* makes no push and publishes no event
C7_AddTwice ==
  [][ (ops' = ops + 1 /\ last'.op = "add") =>
        LET i == last'.arg.id
        IN /\ (elementsById[i] = NoEle) =>
                /\ Cardinality(IndexIds(elementsById')) =
                     Cardinality(IndexIds(elementsById)) + 1
                /\ elementsById'[i] = last'.arg
                /\ Len(last'.store) = 1
                /\ last'.store[1].op = "push"
                /\ last'.store[1].id = i
           /\ (last.op = "add" /\ last.arg = last'.arg /\ last.result = "updatePromise") =>
                /\ elementsById' = elementsById
                /\ entries' = entries
                /\ last'.store = <<>>
                /\ last'.emits = <<>>
                /\ last'.result = "resolved" ]_vars

C7_Witness ==
  /\ ops = 2
  /\ last.op = "add"
  /\ last.result = "resolved"
  /\ entries = <<Entry(last.arg.id, UNDEF)>>
  /\ IndexIds(elementsById) = {last.arg.id}

\* C8: add( x ) makes no push and publishes no event when the entry list
\* already holds an entry of the id of x, and no two entries of the entry
\* list share an id
C8_NoDuplicateEntry ==
  /\ [](\A j, k \in 1..Len(entries) : j # k => entries[j].id # entries[k].id)
  /\ [][ (ops' = ops + 1 /\ last'.op = "add" /\ last'.arg.id \in EntryIds(entries)) =>
           (last'.store = <<>> /\ last'.emits = <<>> /\ entries' = entries) ]_vars

\* C9: remove( x ) and regroup( x ) of an x that is not in the index resolve
\* and change nothing: no index change, no store call, no event
C9_AbsentNoop ==
  [][ (ops' = ops + 1 /\ last'.op \in {"remove", "regroup"}
       /\ elementsById[last'.arg.id] = NoEle) =>
        /\ last'.result = "resolved"
        /\ last'.emits = <<>>
        /\ last'.store = <<>>
        /\ elementsById' = elementsById
        /\ entries' = entries ]_vars

C9_Witness ==
  /\ last.op = "remove"
  /\ last.result = "resolved"
  /\ elementsById[last.arg.id] = NoEle
  /\ last.arg.id \in EntryIds(entries)

\* C10: remove( x ) of a member, x the element or its id, deletes the id from
\* the index, makes one pullById of the id and, unless silent, publishes
\* remove then localremove, both with the element that was in the index and
\* the group its entry had
C10_RemoveMember ==
  [][ (ops' = ops + 1 /\ last'.op = "remove"
       /\ elementsById[last'.arg.id] # NoEle
       /\ last'.arg.id \in EntryIds(entries)) =>
        LET i == last'.arg.id
            obj == elementsById[i]
            g == find(entries, i).group
        IN /\ elementsById'[i] = NoEle
           /\ Len(last'.store) = 1
           /\ last'.store[1].op = "pullById"
           /\ last'.store[1].id = i
           /\ \/ last'.store[1].silent /\ last'.emits = <<>>
              \/ ~last'.store[1].silent
                 /\ last'.emits = << Evt("remove", obj, g, UNDEF),
                                     Evt("localremove", obj, g, UNDEF) >> ]_vars

C10_Witness ==
  /\ last.op = "remove"
  /\ last.arg.kind = "id"
  /\ Len(last.emits) = 2
  /\ last.emits[1].ele = Ele(last.arg.id)
  /\ last.emits[1].group \in Tags

\* C11: regroup( x, { group } ) of a member x (in the index, with an entry)
\* sends to the store the group it was given, or null when it was given
\* undefined, never undefined; group( x ) right after it returns "g" when the
\* group given was "g" and null when the group given was undefined
C11_GroupRoundTrip ==
  [][ (ops' = ops + 1 /\ last'.op = "regroup"
       /\ elementsById[last'.arg.id] # NoEle
       /\ last'.arg.id \in EntryIds(entries)) =>
        LET given == last'.group
            stored == IF given = UNDEF THEN NULL ELSE given
        IN /\ Len(last'.store) = 1
           /\ last'.store[1].op = "mergeById"
           /\ last'.store[1].group = stored
           /\ last'.store[1].group # UNDEF
           /\ group(elementsById', entries', last'.arg) = stored
           /\ group(elementsById', entries', last'.arg) # UNDEF
           /\ given \in Tags => group(elementsById', entries', last'.arg) = given
           /\ given = UNDEF => group(elementsById', entries', last'.arg) = NULL
           /\ \/ last'.store[1].silent
              \/ /\ Len(last'.emits) = 2
                 /\ last'.emits[1].group = stored ]_vars

\* regroup( x, { group: undefined } ) of a member whose group was a tag has
\* been made, and group( x ) is null
C11_Witness ==
  /\ last.op = "regroup"
  /\ last.result = "updatePromise"
  /\ last.group = UNDEF
  /\ group(elementsById, entries, last.arg) = NULL
  /\ Len(last.emits) = 2
  /\ last.emits[1].oldGroup \in Tags

\* C12: group( x ) returns a value in every state and for every x: undefined
\* when the entry list has no entry of the id of x (also when the id is still
\* in the index), and the group of the entry when x is in the index and the
\* entry list has its entry; it never throws
C12_GroupTotal ==
  \A x \in EleArgs :
    LET r == group(elementsById, entries, x)
    IN /\ r # TypeError
       /\ (x.id \notin EntryIds(entries)) => r = UNDEF
       /\ (x.id \in EntryIds(entries) /\ elementsById[x.id] # NoEle) =>
            r = find(entries, x.id).group

\* the entries of es, in order, that group g selects and the index holds
RECURSIVE HydratedOf(_, _, _)
HydratedOf(m, es, g) ==
  IF es = <<>> THEN <<>>
  ELSE (IF (g \in {UNDEF, NULL} \/ Head(es).group = g) /\ m[Head(es).id] # NoEle
        THEN <<m[Head(es).id]>> ELSE <<>>)
       \o HydratedOf(m, Tail(es), g)

\* C13: elements( g ) is the entry list, in its order, restricted to the
\* entries of group g (all entries without g), each mapped to its element in
\* the index, entries without an element left out; every element returned has
\* an entry, and no element is returned twice
C13_Elements ==
  \A g \in GroupVals :
    LET r == elements(elementsById, entries, g)
    IN /\ r = HydratedOf(elementsById, entries, g)
       /\ \A k \in 1..Len(r) : r[k].id \in EntryIds(entries)
       /\ \A j, k \in 1..Len(r) : j # k => r[j] # r[k]

\* C14: when a remote diff all of whose loads resolved has been flushed, every
\* added id is in the index with the element the cache returned for it, the
\* batch starts with one add then remoteadd per added entry, in entry order,
\* with that element and the group of the entry, and elements() holds the element
C14_RemoteAdd ==
  (last.op = "flush") =>
    LET added == addedEntries(last.diff.changes, last.diff.old)
        adds == SelectSeq(last.emits, LAMBDA e : e.evt \in {"add", "remoteadd"})
    IN /\ Len(adds) = 2 * Len(added)
       /\ \A k \in 1..Len(added) :
            LET obj == CacheLoad(IdVal(added[k].id))
            IN /\ elementsById[added[k].id] = obj
               /\ last.emits[2 * k - 1] = Evt("add", obj, added[k].group, UNDEF)
               /\ last.emits[2 * k] = Evt("remoteadd", obj, added[k].group, UNDEF)
               /\ obj \in SeqToSet(elements(elementsById, entries, UNDEF))

\* C15: when every load and every synch resolves and the calls and remote
\* diffs have come to an end, every id of the entry list is in the index from
\* some point on
C15_EventualHydration ==
  <>[](EntryIds(entries) \subseteq IndexIds(elementsById))

\* C16: when the push of add(), the pullById of remove() or the mergeById of
\* regroup() is rejected, the promise the call returned is rejected with the
\* same error, no second store call is made, the index keeps the change of the
\* call (x in the index after add, out of it after remove), and the events of
\* the call were published before
C16_StoreRejection ==
  /\ [][ (last'.result \in StoreOutcomes) =>
           /\ last.result = "updatePromise"
           /\ last'.result = last'.store[1].outcome
           /\ Len(last'.store) = 1
           /\ [last'.store[1] EXCEPT !.outcome = "pending"] = last.store[1]
           /\ last'.emits = last.emits
           /\ elementsById' = elementsById
           /\ entries' = entries ]_vars
  /\ []((last.result \in StoreErrors) =>
          /\ last.op = "add" => elementsById[last.arg.id] = last.arg
          /\ last.op = "remove" => elementsById[last.arg.id] = NoEle
          /\ last.op = "regroup" => elementsById[last.arg.id] # NoEle
          /\ last.store[1].silent \/
               (Len(last.emits) = 2 /\ last.emits[1].evt = last.op
                /\ last.emits[2].evt = "local" \o last.op))

\* the push of an add, the pullById of a remove and the mergeById of a regroup
\* can each be rejected
C16_Witness ==
  /\ last.op = "remove"
  /\ last.result \in StoreErrors
  /\ last.store[1].op = "pullById"
  /\ Len(last.emits) = 2
  /\ elementsById[last.arg.id] = NoEle

\* C17: the constructor throws when the syncher has no entries field and then
\* makes no subscription to remoteupdate; with an entries field, an empty list
\* too, it ends with an empty index and exactly one subscription
C17_Constructor ==
  /\ [][ (ctor.status = "new" /\ ctor'.status # "new") =>
           IF ctor.declared
           THEN /\ ctor'.status = "constructed"
                /\ ctor'.subscriptions = 1
                /\ IndexIds(elementsById') = {}
           ELSE /\ ctor'.status = "threw"
                /\ last'.result = "threw"
                /\ ctor'.subscriptions = 0 ]_vars
  /\ [](ctor.subscriptions = (IF ctor.status = "constructed" THEN 1 ELSE 0))
  /\ []((last.op = "remoteupdate") => ctor.status = "constructed")

\* a set was constructed on a syncher whose entries list is empty
C17_Witness ==
  /\ last.op = "constructor"
  /\ ctor.status = "constructed"
  /\ ctor.subscriptions = 1
  /\ entries = <<>>

\* C18: remove( x ) of an x that is in the index and has no entry in the entry
\* list fails with a rejected promise handed to the caller; it publishes no
\* event and makes no pullById
C18_RemoveWithoutEntry ==
  [][ (ops' = ops + 1 /\ last'.op = "remove"
       /\ elementsById[last'.arg.id] # NoEle
       /\ last'.arg.id \notin EntryIds(entries)) =>
        /\ last'.result = "rejected"
        /\ last'.emits = <<>>
        /\ last'.store = <<>> ]_vars

\* C19: synch( enable ) calls synch( enable ) once on every element that is in
\* the index, also on one whose entry is not in the entry list, and on no
\* other element
C19_SynchAllHydrated ==
  [][ (ops' = ops + 1 /\ last'.op = "synch") =>
        /\ {last'.store[k].id : k \in 1..Len(last'.store)} = IndexIds(elementsById)
        /\ Len(last'.store) = Cardinality(IndexIds(elementsById))
        /\ \A k \in 1..Len(last'.store) :
             last'.store[k].op = "ele.synch" /\ last'.store[k].enable \in BOOLEAN ]_vars

\* C20: when the load of an added entry resolves, synch( true ) is called on
\* the element exactly when the syncher is live and the element is not; the
\* commit runs, and only the commit of a handler puts elements into the index,
\* after every such synch has resolved; so with a live syncher every element
\* announced by remoteadd is live
C20_LivenBeforeAdd ==
  /\ [][ (last'.op = "loaded" /\ Len(diffs') = Len(diffs)) =>
           \A d \in 1..Len(diffs) : \A k \in 1..Len(diffs[d].fill) :
             (diffs[d].fill[k] = "loading" /\ diffs'[d].fill[k] # "loading") =>
               LET id == addedEntries(diffs[d].changes, diffs[d].old)[k].id
               IN IF live /\ id \notin eleLive
                  THEN diffs'[d].fill[k] = "livening"
                  ELSE diffs'[d].fill[k] = "filled" ]_vars
  /\ [][ (diffs' # diffs /\ elementsById' # elementsById) => CommitRuns ]_vars
  /\ []((last.op \in {"commit", "flush"}) =>
          \A k \in 1..Len(last.diff.fill) : last.diff.fill[k] = "filled")
  /\ []((last.op = "flush" /\ live) =>
          \A k \in 1..Len(last.emits) :
            last.emits[k].evt \in {"add", "remoteadd"} =>
              last.emits[k].ele.id \in eleLive)

\* C21: add, remove and regroup change the index, call the syncher and publish
\* their events in one step, the promise of the syncher still pending: at the
\* add event has( x ) is true, at the remove event has( x ) is false
C21_LocalOrder ==
  [][ (ops' = ops + 1 /\ last'.op \in {"add", "remove", "regroup"}
       /\ last'.emits # <<>>) =>
        /\ last'.result = "updatePromise"
        /\ Len(last'.store) = 1
        /\ last'.store[1].outcome = "pending"
        /\ last'.op = "add" =>
             (has(elementsById', last'.arg) /\ ~has(elementsById, last'.arg)
              /\ last'.store[1].op = "push")
        /\ last'.op = "remove" =>
             (~has(elementsById', last'.arg) /\ has(elementsById, last'.arg)
              /\ last'.store[1].op = "pullById")
        /\ last'.op = "regroup" =>
             (has(elementsById', last'.arg) /\ last'.store[1].op = "mergeById") ]_vars

\* an add has published its events while its push is pending
C21_Witness ==
  /\ last.op = "add"
  /\ Len(last.emits) = 2
  /\ last.store[1].outcome = "pending"
  /\ has(elementsById, last.arg)

\* C22: opts.silent only takes the events away: an add, remove or regroup that
\* goes to the syncher makes the index change and the syncher call that follow
\* from its argument alone (add appends the entry, remove takes one entry of
\* the id out of the list, the only one when the list is id-unique, regroup
\* patches the entry), hands silent to the syncher, and publishes nothing
\* when silent, else two events, the generic one and then its local twin
C22_Silent ==
  [][ (ops' = ops + 1 /\ last'.op \in {"add", "remove", "regroup"}
       /\ last'.store # <<>>) =>
        LET c == last'.store[1]
            i == last'.arg.id
        IN /\ Len(last'.store) = 1
           /\ c.id = i
           /\ c.silent \in BOOLEAN
           /\ c.silent => last'.emits = <<>>
           /\ ~c.silent =>
                /\ Len(last'.emits) = 2
                /\ last'.emits[1].evt = last'.op
                /\ last'.emits[2] = [last'.emits[1] EXCEPT !.evt = "local" \o last'.op]
           /\ last'.op = "add" =>
                /\ c.op = "push"
                /\ elementsById' = [elementsById EXCEPT ![i] = last'.arg]
                /\ entries' = Append(entries, Entry(i, c.group))
           /\ last'.op = "remove" =>
                /\ c.op = "pullById"
                /\ elementsById' = [elementsById EXCEPT ![i] = NoEle]
                /\ \E k \in 1..Len(entries) :
                     /\ entries[k].id = i
                     /\ entries' = SubSeq(entries, 1, k - 1)
                                     \o SubSeq(entries, k + 1, Len(entries))
                /\ (\A j, k \in 1..Len(entries) :
                      entries[j].id = entries[k].id => j = k) =>
                     i \notin EntryIds(entries')
           /\ last'.op = "regroup" =>
                /\ c.op = "mergeById"
                /\ elementsById' = elementsById
                /\ find(entries', i).group = c.group ]_vars

\* a silent remove of a member went to the syncher
C22_Witness ==
  /\ last.op = "remove"
  /\ last.store # <<>>
  /\ last.store[1].silent
  /\ last.emits = <<>>
  /\ elementsById[last.arg.id] = NoEle

\* the diff has the same ids in both lists: it can only change groups
OnlyRegroups(rec) ==
  rec.pc # "none" /\ EntryIds(rec.changes) = EntryIds(rec.old)

\* C23: regroup( x ) and every step of a remote diff whose two entry lists
\* hold the same ids leave the index as it is, key by key, and such a diff
\* starts no load from the cache
C23_RegroupFrame ==
  /\ [][ (ops' = ops + 1 /\ last'.op = "regroup") =>
           (elementsById' = elementsById /\ diffs' = diffs /\ le' = le) ]_vars
  /\ [][ (last'.op \in {"remoteupdate", "commit", "regroups", "flush"}
          /\ OnlyRegroups(last'.diff)) =>
           /\ elementsById' = elementsById
           /\ last'.diff.fill = <<>>
           /\ last'.diff.filledRemoved = <<>>
           /\ last'.op = "remoteupdate" => last'.diff.pc = "commit" ]_vars

\* a remote diff that changed the group of a loaded element has been flushed
C23_Witness ==
  /\ last.op = "flush"
  /\ OnlyRegroups(last.diff)
  /\ Len(last.emits) = 2
  /\ last.emits[1].evt = "regroup"
  /\ last.emits[1].ele # NoEle

\* the regroup pairs a diff owes, their element left open: one pair for each
\* entry of the new list whose id is in the old list with another group
RECURSIVE RegroupsOwed(_, _)
RegroupsOwed(new, old) ==
  IF new = <<>> THEN <<>>
  ELSE LET en == Head(new)
       IN (IF en.id \in EntryIds(old) /\ en.group # find(old, en.id).group
           THEN << Evt("regroup", NoEle, en.group, find(old, en.id).group),
                   Evt("remoteregroup", NoEle, en.group, find(old, en.id).group) >>
           ELSE <<>>)
          \o RegroupsOwed(Tail(new), old)

\* C24: a remote diff publishes regroup then remoteregroup for an id exactly
\* when the id is in both entry lists with different groups, with the new and
\* the old group; an id the diff adds or removes gets no regroup event
C24_RemoteRegroup ==
  (last.op = "flush") =>
    LET rec == last.diff
        isRegroup(e) == e.evt \in {"regroup", "remoteregroup"}
        regs == SelectSeq(last.emits, isRegroup)
    IN /\ [k \in 1..Len(regs) |-> [regs[k] EXCEPT !.ele = NoEle]] =
            RegroupsOwed(rec.changes, rec.old)
       /\ \A k \in 1..Len(regs) :
            \E i \in EntryIds(rec.changes) \cap EntryIds(rec.old) :
              /\ regs[k].ele \in {NoEle, Ele(i)}
              /\ regs[k].group = find(rec.changes, i).group
              /\ regs[k].oldGroup = find(rec.old, i).group
              /\ regs[k].group # regs[k].oldGroup

\* a flushed diff that regrouped one of two kept entries and added another
C24_Witness ==
  /\ last.op = "flush"
  /\ Len(sameEntries(last.diff.changes, last.diff.old)) = 2
  /\ Len(addedEntries(last.diff.changes, last.diff.old)) = 1
  /\ Len(SelectSeq(last.emits, LAMBDA e : e.evt = "regroup")) = 1
  /\ \E k \in 1..Len(last.emits) :
       last.emits[k].evt = "remoteregroup" /\ last.emits[k].group \in Tags
       /\ last.emits[k].oldGroup = NULL

\* the remove pairs owed for the removed entries es of a diff that found the
\* index m at its arrival
RECURSIVE RemovesOwed(_, _)
RemovesOwed(es, m) ==
  IF es = <<>> THEN <<>>
  ELSE (IF m[Head(es).id] # NoEle
        THEN << Evt("remove", m[Head(es).id], Head(es).group, UNDEF),
                Evt("remoteremove", m[Head(es).id], Head(es).group, UNDEF) >>
        ELSE <<>>)
       \o RemovesOwed(Tail(es), m)

\* C25: the removals of a remote diff are fixed when it arrives: the entries
\* of the old list whose id is not in the new list and is in the index at that
\* time, each with the element the index holds; the flush publishes remove
\* then remoteremove for exactly these, with that element and the group of the
\* old entry; the other removed entries give no event and no failure
C25_RemovalsAtArrival ==
  /\ [][ (last'.op = "remoteupdate") =>
           LET rec == last'.diff
               gone == SelectSeq(rec.old, LAMBDA en : en.id \notin EntryIds(rec.changes))
           IN /\ emitsRemoved(rec.filledRemoved) = RemovesOwed(gone, elementsById)
              /\ rec.pc \in {"fill", "commit"}
              /\ last'.result = "none" ]_vars
  /\ [][ (last'.op = "flush") =>
           \E d \in 1..Len(diffs) :
             /\ last'.diff = [diffs[d] EXCEPT !.pc = "done", !.emits = last'.emits]
             /\ SelectSeq(last'.emits, LAMBDA e : e.evt \in {"remove", "remoteremove"})
                  = emitsRemoved(diffs[d].filledRemoved) ]_vars
  /\ [][ \A d \in 1..Len(diffs) :
            (d <= Len(diffs') /\ diffs'[d].changes = diffs[d].changes
             /\ diffs'[d].old = diffs[d].old) =>
              diffs'[d].filledRemoved = diffs[d].filledRemoved ]_vars

\* a flushed diff that removed two entries, one loaded and one not
C25_Witness ==
  /\ last.op = "flush"
  /\ Len(removedEntries(last.diff.changes, last.diff.old)) = 2
  /\ Len(last.diff.filledRemoved) = 1
  /\ Len(SelectSeq(last.emits, LAMBDA e : e.evt = "remoteremove")) = 1

\* C26: when the remote diffs delivered so far, overlapping or not, have all
\* been processed with every load resolved and without a local call, the ids
\* in the index are the ids of the entry list
C26_Convergence ==
  (diffs = <<>>) => IndexIds(elementsById) = EntryIds(entries)

\* C27: no id is announced by add twice with no remove in between: an add( x )
\* made while a remote diff that adds the id of x is being filled publishes
\* nothing and pushes nothing, and the commit of a remote diff queues add only
\* for ids that are not in the index
C27_NoDoubleAdd ==
  /\ [][ (ops' = ops + 1 /\ last'.op = "add"
          /\ \E d \in 1..Len(diffs) :
               /\ diffs[d].pc \in {"fill", "commit"}
               /\ last'.arg.id \in
                    EntryIds(addedEntries(diffs[d].changes, diffs[d].old))) =>
           (last'.emits = <<>> /\ last'.store = <<>>) ]_vars
  /\ [][ (last'.op = "flush") =>
           \A en \in SeqToSet(addedEntries(last'.diff.changes, last'.diff.old)) :
             elementsById[en.id] = NoEle ]_vars

\* the handler has, or will have, events to publish
BatchOwed(rec) ==
  /\ rec.pc # "rejected"
  /\ \/ addedEntries(rec.changes, rec.old) # <<>>
     \/ rec.filledRemoved # <<>>
     \/ RegroupsOwed(rec.changes, rec.old) # <<>>

\* C28: the batches of remote diffs are published in the order of delivery,
\* each in one piece: a handler publishes its batch only when no handler
\* delivered before it still has a batch to publish
C28_BatchOrder ==
  [][ (last'.op = "flush" /\ last'.emits # <<>>) =>
        \E d \in 1..Len(diffs) :
          /\ last'.diff = [diffs[d] EXCEPT !.pc = "done", !.emits = last'.emits]
          /\ \A e \in 1..(d - 1) : ~BatchOwed(diffs[e]) ]_vars

\* the add pairs of the entries es, in the order of es
RECURSIVE AddsOwed(_)
AddsOwed(es) ==
  IF es = <<>> THEN <<>>
  ELSE << Evt("add", CacheLoad(IdVal(Head(es).id)), Head(es).group, UNDEF),
          Evt("remoteadd", CacheLoad(IdVal(Head(es).id)), Head(es).group, UNDEF) >>
       \o AddsOwed(Tail(es))

\* C29: the add pairs of a remote diff are published in the order its added
\* entries have in the new entry list, whatever the order in which their
\* loads were fulfilled: the batch is the same for every such order
C29_AddOrder ==
  (last.op = "flush") =>
    LET rec == last.diff
        news == SelectSeq(rec.changes, LAMBDA en : en.id \notin EntryIds(rec.old))
        adds == SelectSeq(last.emits, LAMBDA e : e.evt \in {"add", "remoteadd"})
    IN /\ adds = AddsOwed(news)
       /\ last.emits =
            adds \o emitsRemoved(rec.filledRemoved)
                 \o SelectSeq(last.emits,
                              LAMBDA e : e.evt \in {"regroup", "remoteregroup"})
       /\ Len(rec.order) = Len(news)

\* a flushed diff whose three loads were fulfilled in another order than that
\* of its entries
C29_Witness ==
  /\ last.op = "flush"
  /\ Len(last.diff.order) = 3
  /\ last.diff.order[1] = 3
  /\ last.diff.order[3] = 1
  /\ last.diff.changes[1].id > last.diff.changes[2].id

\* C30: every add, remove and regroup event, local or remote, is published
\* with an element as its first argument, never with undefined
C30_EventHasElement ==
  \A k \in 1..Len(last.emits) :
    last.emits[k].evt # "loadelements" =>
      (last.emits[k].ele # NoEle /\ last.emits[k].ele.kind = "ele")

\* C31: a remove( x ) that fails because x is in the index and has no entry in
\* the entry list changes nothing: the index still holds x after the call, and
\* the entry list is as it was
C31_FailedRemoveFrame ==
  [][ (ops' = ops + 1 /\ last'.op = "remove"
       /\ elementsById[last'.arg.id] # NoEle
       /\ last'.arg.id \notin EntryIds(entries)) =>
        /\ has(elementsById', last'.arg)
        /\ elementsById' = elementsById
        /\ entries' = entries ]_vars

\* C32: group( x ) is undefined only for an x that is not a member: for every
\* x that is in the index and has its entry in the entry list, however it was
\* added and regrouped, group( x ) is a tag or null
C32_GroupOfMember ==
  \A x \in EleArgs :
    (has(elementsById, x) /\ x.id \in EntryIds(entries)) =>
      group(elementsById, entries, x) \in {NULL} \cup Tags

\* the ids of the elements reached from el through participants(), el included
RECURSIVE ReachFrom(_, _, _)
ReachFrom(de, todo, seen) ==
  IF todo \subseteq seen THEN seen
  ELSE LET new == todo \ seen
       IN ReachFrom(de,
                    UNION {SeqToSet(de[i].participants) : i \in new},
                    seen \cup new)

\* how many times the call has published evt for the element of id i
Published(emits, evt, i) ==
  Cardinality({k \in 1..Len(emits) : emits[k].evt = evt /\ emits[k].ele.id = i})

\* C33: Document.add( el ) returns for every participant structure, also when
\* an interaction is its own participant directly or through others; after it
\* el and every element reached through participants() is in the set, and the
\* call has published one add and one localadd for each of them that was not
\* a member, and none for one that was
C33_DocumentAdd ==
  [][ (ops' = ops + 1 /\ last'.op = "Document.add") =>
        LET reach == ReachFrom(docEles, {last'.arg.id}, {})
        IN /\ last'.result # "threw"
           /\ reach \subseteq IndexIds(elementsById')
           /\ \A i \in Ids :
                LET n == IF i \in reach \ IndexIds(elementsById) THEN 1 ELSE 0
                IN /\ Published(last'.emits, "add", i) = n
                   /\ Published(last'.emits, "localadd", i) = n ]_vars

====
